---- MODULE Spec2Model ----
(***************************************************************************)
(* Model of pydocmd/google_docstrings.py: the Preprocessor that rewrites   *)
(* Google-style docstrings into Markdown, one line at a time.              *)
(*                                                                         *)
(* A Python str is modelled as a sequence of one-character strings; the    *)
(* backquote character is written BQ, since a TLA+ string cannot hold it.  *)
(* The state is the Preprocessor object's fields, the section object's     *)
(* content and title, and the position of preprocess_section in its line   *)
(* loop (pc), with the loop's local variable line.                         *)
(***************************************************************************)
EXTENDS Integers, Sequences, FiniteSets, TLC

VARIABLES
  config,                 \* self.config.get('markdown_header_id')
  indent,                 \* self.indent
  _current_section,       \* self._current_section
  _in_codeblock,          \* self._in_codeblock
  _in_doctest_codeblock,  \* self._in_doctest_codeblock
  _lines,                 \* self._lines
  sig,                    \* section.loader_context.get('sig'), <<>> when absent
  title,                  \* section.title, <<>> while preprocess_section has not set it
  content,                \* section.content: the input text, then the result
  src,                    \* section.content.split('\n'), the list the loop iterates
  i,                      \* how many elements of src the loop has taken
  line,                   \* the loop's local variable line
  pc                      \* where preprocess_section stands

vars == <<config, indent, _current_section, _in_codeblock, _in_doctest_codeblock,
          _lines, sig, title, content, src, i, line, pc>>

----------------------------------------------------------------------------
(* Characters and Python's str operations.                                 *)

BQ == "bq"
NL == "\n"
TAB == "\t"
BSL == "\\"

None == "None"

\* str.strip, str.lstrip, str.rstrip and the regex class \s remove these.
Whitespace == {" ", TAB, NL}

LowerLetters == {"a", "b", "c", "d", "e", "f", "g", "h", "i", "j", "k", "l", "m",
                 "n", "o", "p", "q", "r", "s", "t", "u", "v", "w", "x", "y", "z"}

UpperLetters == {"A", "B", "C", "D", "E", "F", "G", "H", "I", "J", "K", "L", "M",
                 "N", "O", "P", "Q", "R", "S", "T", "U", "V", "W", "X", "Y", "Z"}

Digits == {"0", "1", "2", "3", "4", "5", "6", "7", "8", "9"}

\* The regex class \w (with \d and _ inside it).
WordChars == LowerLetters \cup UpperLetters \cup Digits \cup {"_"}

LowerOf ==
  ("A" :> "a") @@ ("B" :> "b") @@ ("C" :> "c") @@ ("D" :> "d") @@ ("E" :> "e") @@
  ("F" :> "f") @@ ("G" :> "g") @@ ("H" :> "h") @@ ("I" :> "i") @@ ("J" :> "j") @@
  ("K" :> "k") @@ ("L" :> "l") @@ ("M" :> "m") @@ ("N" :> "n") @@ ("O" :> "o") @@
  ("P" :> "p") @@ ("Q" :> "q") @@ ("R" :> "r") @@ ("S" :> "s") @@ ("T" :> "t") @@
  ("U" :> "u") @@ ("V" :> "v") @@ ("W" :> "w") @@ ("X" :> "x") @@ ("Y" :> "y") @@
  ("Z" :> "z")

\* str.lower
RECURSIVE Lower(_)
Lower(s) ==
  IF s = <<>> THEN <<>>
  ELSE <<IF Head(s) \in DOMAIN LowerOf THEN LowerOf[Head(s)] ELSE Head(s)>> \o Lower(Tail(s))

\* c * n
RECURSIVE Repeat(_, _)
Repeat(c, n) == IF n <= 0 THEN <<>> ELSE <<c>> \o Repeat(c, n - 1)

\* s[k:] for k >= 0, and Python's reading of a negative k
SliceFrom(s, k) ==
  LET from == IF k >= 0 THEN k ELSE IF Len(s) + k > 0 THEN Len(s) + k ELSE 0
  IN  SubSeq(s, from + 1, Len(s))

\* s[:k] for k >= 0
SliceTo(s, k) == SubSeq(s, 1, IF k < Len(s) THEN k ELSE Len(s))

\* the length of the run of whitespace s starts with
RECURSIVE LeadingLen(_)
LeadingLen(s) ==
  IF s # <<>> /\ Head(s) \in Whitespace THEN 1 + LeadingLen(Tail(s)) ELSE 0

\* str.lstrip
LStrip(s) == SliceFrom(s, LeadingLen(s))

\* str.rstrip
RECURSIVE RStrip(_)
RStrip(s) ==
  IF s # <<>> /\ s[Len(s)] \in Whitespace THEN RStrip(SubSeq(s, 1, Len(s) - 1)) ELSE s

\* str.strip
Strip(s) == RStrip(LStrip(s))

\* str.startswith
StartsWith(s, p) == Len(s) >= Len(p) /\ SubSeq(s, 1, Len(p)) = p

\* str.endswith
EndsWith(s, p) == Len(s) >= Len(p) /\ SubSeq(s, Len(s) - Len(p) + 1, Len(s)) = p

\* c in s
Contains(s, c) == \E k \in 1..Len(s) : s[k] = c

\* str.replace(c, r) for a one-character c
RECURSIVE Replace(_, _, _)
Replace(s, c, r) ==
  IF s = <<>> THEN <<>>
  ELSE (IF Head(s) = c THEN r ELSE <<Head(s)>>) \o Replace(Tail(s), c, r)

\* the index of the first c in s, 0 when there is none
RECURSIVE IndexOf(_, _)
IndexOf(s, c) ==
  IF s = <<>> THEN 0
  ELSE IF Head(s) = c THEN 1
  ELSE LET r == IndexOf(Tail(s), c) IN IF r = 0 THEN 0 ELSE r + 1

\* str.split(c, 1): the list of one or two parts
Split1(s, c) ==
  LET k == IndexOf(s, c)
  IN  IF k = 0 THEN <<s>> ELSE <<SubSeq(s, 1, k - 1), SubSeq(s, k + 1, Len(s))>>

\* str.split(c): the list of all parts, never empty
RECURSIVE SplitAll(_, _)
SplitAll(s, c) ==
  LET k == IndexOf(s, c)
  IN  IF k = 0 THEN <<s>>
      ELSE <<SubSeq(s, 1, k - 1)>> \o SplitAll(SubSeq(s, k + 1, Len(s)), c)

\* sep.join(list)
RECURSIVE Join(_, _)
Join(list, sep) ==
  IF list = <<>> THEN <<>>
  ELSE IF Len(list) = 1 THEN list[1]
  ELSE list[1] \o sep \o Join(Tail(list), sep)

----------------------------------------------------------------------------
(* Preprocessor: its table and the pure parts of its methods.              *)

\* self.valid_sections
valid_sections ==
  (<<"a", "r", "g", "s">> :> "Arguments") @@
  (<<"a", "r", "g", "u", "m", "e", "n", "t", "s">> :> "Arguments") @@
  (<<"p", "a", "r", "a", "m", "e", "t", "e", "r", "s">> :> "Arguments") @@
  (<<"p", "a", "r", "a", "m", "s">> :> "Arguments") @@
  (<<"a", "t", "t", "r", "i", "b", "u", "t", "e", "s">> :> "Attributes") @@
  (<<"m", "e", "m", "b", "e", "r", "s">> :> "Attributes") @@
  (<<"r", "a", "i", "s", "e", "s">> :> "Raises") @@
  (<<"r", "e", "t", "u", "r", "n">> :> "Returns") @@
  (<<"r", "e", "t", "u", "r", "n", "s">> :> "Returns") @@
  (<<"y", "i", "e", "l", "d", "s">> :> "Yields")

\* the characters of a canonical section name, as str.format writes them
SectionText ==
  ("Arguments" :> <<"A", "r", "g", "u", "m", "e", "n", "t", "s">>) @@
  ("Attributes" :> <<"A", "t", "t", "r", "i", "b", "u", "t", "e", "s">>) @@
  ("Raises" :> <<"R", "a", "i", "s", "e", "s">>) @@
  ("Returns" :> <<"R", "e", "t", "u", "r", "n", "s">>) @@
  ("Yields" :> <<"Y", "i", "e", "l", "d", "s">>)

Fence == <<BQ, BQ, BQ>>

\* line.startswith("```")
IsFenceLine(ln) == StartsWith(ln, Fence)

\* "```python"
OpenMarker == Fence \o <<"p", "y", "t", "h", "o", "n">>

\* blank_token = "<BLANKLINE>"
blank_token == <<"<", "B", "L", "A", "N", "K", "L", "I", "N", "E", ">">>

Prompts == {<<">", ">", ">", " ">>, <<".", ".", ".", " ">>}

\* block_indicated = line.lstrip()[:4] in ['>>> ', '... ']
block_indicated(ln) == SliceTo(LStrip(ln), 4) \in Prompts

TabWidth == 8

\* the line is appended as it is, tabs kept
processed_line_TabsKept(ln) == ln

\* whitespace.replace('\t', ' '*8) + line[len(whitespace):]
processed_line(ln) ==
  LET whitespace == SliceTo(ln, Len(ln) - Len(LStrip(ln)))
  IN  Replace(whitespace, TAB, Repeat(" ", TabWidth)) \o SliceFrom(ln, Len(whitespace))

\* re.match(r'^(.+):$', line.rstrip()): the line, less trailing whitespace, is
\* at least one character followed by a final colon
HeaderMatches(ln) == Len(RStrip(ln)) >= 2 /\ RStrip(ln)[Len(RStrip(ln))] = ":"

\* the name is looked up as written, not lowercased
sec_name_CaseSensitive(ln) == Strip(SubSeq(RStrip(ln), 1, Len(RStrip(ln)) - 1))

\* sec_name = match.group(1).strip().lower()
sec_name(ln) == Lower(Strip(SubSeq(RStrip(ln), 1, Len(RStrip(ln)) - 1)))

\* the line is a header of a section of the table
IsSectionHeader(ln) == HeaderMatches(ln) /\ sec_name(ln) \in DOMAIN valid_sections

\* line = '__{}__\n'.format(self._current_section)
HeaderMarker(sec) == <<"_", "_">> \o SectionText[sec] \o <<"_", "_", NL>>

\* '* __{}__: {}'.format(a, b)
FormatArgument(a, b) == <<"*", " ", "_", "_">> \o a \o <<"_", "_", ":", " ">> \o b

\* '* `{}`: {}'.format(a, b)
FormatAttribute(a, b) == <<"*", " ", BQ>> \o a \o <<BQ, ":", " ">> \o b

\* a space is put in after the colon, as for the bullets
FormatReturn_Spaced(a, b) == <<BQ>> \o a \o <<BQ, ":", " ">> \o b

\* '`{}`:{}'.format(a, b)
FormatReturn(a, b) == <<BQ>> \o a \o <<BQ, ":">> \o b

\* line.strip().split(':', 1), which the code unpacks into a, b
ColonParts(ln) == Split1(Strip(ln), ":")

\* the rewrite of a line of the active section; raised when a, b = ... cannot
\* unpack the list
SectionRewrite(sec, ln) ==
  IF sec \in DOMAIN SectionText /\ Contains(ln, ":")
  THEN LET parts == ColonParts(ln)
       IN  IF Len(parts) # 2 THEN [raised |-> TRUE, line |-> ln]
           ELSE IF Strip(parts[1]) # <<>> /\ Strip(parts[2]) # <<>>
           THEN [raised |-> FALSE,
                 line |-> CASE sec = "Arguments" -> FormatArgument(parts[1], parts[2])
                            [] sec \in {"Attributes", "Raises"} ->
                                 FormatAttribute(parts[1], parts[2])
                            [] OTHER -> FormatReturn(parts[1], parts[2])]
           ELSE [raised |-> FALSE, line |-> ln]
  ELSE [raised |-> FALSE, line |-> ln]

\* a shallower line does not end the section
IndentReduced_Never(ind, ln) == FALSE

\* the indentation drops below the baseline: the section ends
IndentReduced(ind, ln) == ind # -1 /\ LeadingLen(ln) < ind

\* the section ends, and self.indent keeps the old baseline
IndentAfter_KeepsBaseline(ind, ln) == IF ind = -1 THEN LeadingLen(ln) ELSE ind

\* self.indent after the indent check
IndentAfter(ind, ln) ==
  IF ind = -1 THEN LeadingLen(ln) ELSE IF IndentReduced(ind, ln) THEN 0 ELSE ind

\* self._current_section after the indent check
SectionAfter(ind, sec, ln) == IF IndentReduced(ind, ln) THEN None ELSE sec

\* a blank line goes through the indent check as well
process_line_BlankChecked(ind, sec, ln) ==
  IF IsSectionHeader(ln)
  THEN [raised |-> FALSE, line |-> HeaderMarker(valid_sections[sec_name(ln)]),
        indent |-> -1, section |-> valid_sections[sec_name(ln)]]
  ELSE LET ind2 == IndentAfter(ind, ln)
           sec2 == SectionAfter(ind, sec, ln)
           out == IF Strip(ln) = <<>> THEN [raised |-> FALSE, line |-> ln]
                  ELSE SectionRewrite(sec2, SliceFrom(ln, ind2))
       IN  [raised |-> out.raised, line |-> out.line, indent |-> ind2, section |-> sec2]

\* _process_line: the line it returns and the fields it leaves
process_line(ind, sec, ln) ==
  IF Strip(ln) = <<>>
  THEN [raised |-> FALSE, line |-> ln, indent |-> ind, section |-> sec]
  ELSE IF IsSectionHeader(ln)
  THEN [raised |-> FALSE, line |-> HeaderMarker(valid_sections[sec_name(ln)]),
        indent |-> -1, section |-> valid_sections[sec_name(ln)]]
  ELSE LET ind2 == IndentAfter(ind, ln)
           sec2 == SectionAfter(ind, sec, ln)
           out == SectionRewrite(sec2, SliceFrom(ln, ind2))
       IN  [raised |-> out.raised, line |-> out.line, indent |-> ind2, section |-> sec2]

\* the end of the run of [\w\d\._] characters of s that starts at index k
\* (k - 1 when s[k] is not one)
RECURSIVE RefEnd(_, _)
RefEnd(s, k) ==
  IF k <= Len(s) /\ s[k] \in WordChars \cup {"."} THEN RefEnd(s, k + 1) ELSE k - 1

\* '^' holds at the start of every line of the text, as with re.MULTILINE
RefMatch_Multiline(s, p) ==
  LET hash == IF p <= Len(s) /\ s[p] = "#" /\ (p = 1 \/ s[p - 1] = NL) THEN p
              ELSE IF p + 1 <= Len(s) /\ s[p] \in {" ", TAB} /\ s[p + 1] = "#" THEN p + 1
              ELSE 0
      last == RefEnd(s, hash + 1)
      parens == IF last + 2 <= Len(s) /\ s[last + 1] = "(" /\ s[last + 2] = ")"
                THEN <<"(", ")">> ELSE <<>>
  IN  IF hash = 0 \/ last <= hash
      THEN [ok |-> FALSE, prefix |-> <<>>, ref |-> <<>>, parens |-> <<>>, end |-> p]
      ELSE [ok |-> TRUE, prefix |-> SubSeq(s, p, hash - 1),
            ref |-> SubSeq(s, hash + 1, last), parens |-> parens,
            end |-> last + Len(parens)]

\* the regex (?P<prefix>^| |\t)#(?P<ref>[\w\d\._]+)(?P<parens>\(\))? tried at
\* index p of s: '^' holds at the start of the text only (no re.MULTILINE)
RefMatch(s, p) ==
  LET hash == IF p = 1 /\ Len(s) >= 1 /\ s[1] = "#" THEN 1
              ELSE IF p + 1 <= Len(s) /\ s[p] \in {" ", TAB} /\ s[p + 1] = "#" THEN p + 1
              ELSE 0
      last == RefEnd(s, hash + 1)
      parens == IF last + 2 <= Len(s) /\ s[last + 1] = "(" /\ s[last + 2] = ")"
                THEN <<"(", ")">> ELSE <<>>
  IN  IF hash = 0 \/ last <= hash
      THEN [ok |-> FALSE, prefix |-> <<>>, ref |-> <<>>, parens |-> <<>>, end |-> p]
      ELSE [ok |-> TRUE, prefix |-> SubSeq(s, p, hash - 1),
            ref |-> SubSeq(s, hash + 1, last), parens |-> parens,
            end |-> last + Len(parens)]

\* the trailing dot stays inside the code span
handler_DotInside(m) == m.prefix \o <<BQ>> \o m.ref \o m.parens \o <<BQ>>

\* handler(match) of _preprocess_refs
handler(m) ==
  LET has_trailing_dot == m.parens = <<>> /\ EndsWith(m.ref, <<".">>)
      ref == IF has_trailing_dot THEN SubSeq(m.ref, 1, Len(m.ref) - 1) ELSE m.ref
      result == <<BQ>> \o ref \o m.parens \o <<BQ>>
  IN  m.prefix \o result \o (IF has_trailing_dot THEN <<".">> ELSE <<>>)

\* re.sub(pattern, handler, content) from index p on: the matches are taken
\* from left to right and do not overlap
RECURSIVE SubFrom(_, _)
SubFrom(s, p) ==
  IF p > Len(s) THEN <<>>
  ELSE LET m == RefMatch(s, p)
       IN  IF m.ok THEN handler(m) \o SubFrom(s, m.end + 1)
           ELSE <<s[p]>> \o SubFrom(s, p + 1)

\* _preprocess_refs
preprocess_refs(text) == SubFrom(text, 1)

\* the backslash is escaped last, after '*' and '_'
EscapeSig_BackslashLast(s) ==
  Replace(Replace(Replace(s, "*", <<BSL, "*">>), "_", <<BSL, "_">>), BSL, <<BSL, BSL>>)

\* for char in r'\*_': sig = sig.replace(char, '\\' + char)
EscapeSig(s) == Replace(Replace(Replace(s, BSL, <<BSL, BSL>>), "*", <<BSL, "*">>),
                        "_", <<BSL, "_">>)

\* the anchor is formatted from sig, which at that point is the escaped text
AnchorName(s) == Split1(EscapeSig(s), "(")[1]

\* section.title as lines 68-75 leave it (<<>>: not set)
Title(s, header_id) ==
  IF s = <<>> THEN <<>>
  ELSE IF header_id
  THEN EscapeSig(s) \o <<" ", " ", "{", "#">> \o AnchorName(s) \o <<"}">>
  ELSE EscapeSig(s)

----------------------------------------------------------------------------
(* The inputs.                                                             *)

MaxLines == 4

\* every text of 1..n lines drawn from pool, joined as the caller passes it
Texts(pool, n) ==
  {Join(d, <<NL>>) : d \in UNION {[1..k -> pool] : k \in 1..n}}

L_empty == <<>>
L_fence == Fence
L_args == <<"A", "r", "g", "s", ":">>
L_arg == <<" ", " ", "x", ":", " ", "y">>
L_colon == <<"x", ":", " ", "y">>
L_prompt == <<">", ">", ">", " ", "x">>
L_ref == <<" ", "#", "x", ".">>

SectionPool == {L_empty, L_fence, L_args, L_arg, L_colon, L_prompt, L_ref}

\* str.upper, to write the headers in capitals
RECURSIVE Upper(_)
Upper(s) ==
  IF s = <<>> THEN <<>>
  ELSE <<IF \E u \in DOMAIN LowerOf : LowerOf[u] = Head(s)
         THEN CHOOSE u \in DOMAIN LowerOf : LowerOf[u] = Head(s)
         ELSE Head(s)>> \o Upper(Tail(s))

\* the header lines of an alias: as the table spells it, in capitals with
\* whitespace around it and before the colon, and capitalized with a tab
\* after the colon
HeaderLines(alias) ==
  {alias \o <<":">>,
   <<" ", " ">> \o Upper(alias) \o <<" ", ":", " ">>,
   <<TAB>> \o Upper(SliceTo(alias, 1)) \o SliceFrom(alias, 1) \o <<TAB, " ", ":", TAB>>}

MaxHeaderLines == 2

L_assign == <<">", ">", ">", " ", "x", " ", "=", " ", "1">>
L_out == <<"1">>
L_more == <<TAB, ".", ".", ".", " ", "y">>
L_blankline == blank_token
L_spaces == <<" ", " ">>

DoctestPool == {L_empty, L_spaces, L_prompt, L_more, L_out, L_blankline, L_fence}

\* the transcript '>>> x = 1', '>>> x', '1' and the blank line that ends it
T_transcript == Join(<<L_assign, L_prompt, L_out, L_empty>>, <<NL>>)

L_unknown == <<"F", "o", "o", ":">>
L_colons == <<" ", "x", ":", "y", ":">>

\* blank and whitespace-only lines, a header the table does not know, fence
\* markers in any number, lines with two colons
TotalPool == {L_empty, L_spaces, L_fence, L_unknown, L_args, L_colons, L_prompt}

MaxSigLen == 4

SigAlphabet == {"f", "_", "*", BSL, "("}

\* no signature, and every signature of at most MaxSigLen characters
Sigs == {t \o <<>> : t \in UNION {[1..n -> SigAlphabet] : n \in 0..MaxSigLen}}

MaxRefLen == 4

RefAlphabet == {"#", "a", ".", "(", ")", " ", TAB, NL}

\* '#foo.bar() does X.'
T_call == <<"#", "f", "o", "o", ".", "b", "a", "r", "(", ")", " ",
            "d", "o", "e", "s", " ", "X", ".">>

\* '#foo.'
T_dot == <<"#", "f", "o", "o", ".">>

\* '#a' on each of two lines
T_lines == <<"#", "a", NL, "#", "a">>

\* every text of at most MaxRefLen characters of the alphabet, the two
\* sentences and the two lines
RefTexts ==
  {t \o <<>> : t \in UNION {[1..n -> RefAlphabet] : n \in 0..MaxRefLen}}
    \cup {T_call, T_dot, T_lines}

HeaderPool == UNION {HeaderLines(alias) : alias \in DOMAIN valid_sections}
                \cup {L_fence, L_arg}

----------------------------------------------------------------------------
(* The state machine.                                                      *)

\* Preprocessor.__init__
InitWith(configs) ==
  /\ config \in configs
  /\ indent = 0
  /\ _current_section = None
  /\ _in_codeblock = FALSE
  /\ _in_doctest_codeblock = FALSE
  /\ _lines = <<>>
  /\ sig = <<>>
  /\ title = <<>>
  /\ content = <<>>
  /\ src = <<>>
  /\ i = 0
  /\ line = <<>>
  /\ pc = "ready"

\* preprocess_section is called: it resets the fields (lines 62-65); the
\* section it was passed is a new object, not read yet
Enter ==
  /\ pc \in {"ready", "done"}
  /\ _current_section' = None
  /\ _in_codeblock' = FALSE
  /\ _in_doctest_codeblock' = FALSE
  /\ _lines' = <<>>
  /\ content' = <<>>
  /\ sig' = <<>>
  /\ title' = <<>>
  /\ src' = <<>>
  /\ i' = 0
  /\ line' = <<>>
  /\ pc' = "entered"
  /\ UNCHANGED <<config, indent>>

\* preprocess_section reads the section: its signature (lines 67-75) and its
\* content, split into the lines of the loop (line 78)
ReadSection(text, s) ==
  /\ pc = "entered"
  /\ content' = text
  /\ sig' = s
  /\ title' = Title(s, config)
  /\ src' = SplitAll(text, NL)
  /\ pc' = "for"
  /\ UNCHANGED <<config, indent, _current_section, _in_codeblock,
                 _in_doctest_codeblock, _lines, i, line>>

\* for line in section.content.split('\n')
ForLine ==
  /\ pc = "for"
  /\ IF i < Len(src)
     THEN i' = i + 1 /\ line' = src[i + 1] /\ pc' = "codeblock"
     ELSE i' = i /\ line' = line /\ pc' = "refs"
  /\ UNCHANGED <<config, indent, _current_section, _in_codeblock,
                 _in_doctest_codeblock, _lines, sig, title, content, src>>

\* the handler is written for another exception
Handles_ValueError(exception) == exception = "ValueError"

\* try: ... except LineFinished: the exceptions the loop body's handler catches
Handles(exception) == exception = "LineFinished"

\* where control goes when the loop body raises: to the handler, or out of
\* preprocess_section to its caller
RaiseTo(exception) == IF Handles(exception) THEN "except" ELSE "raised"

\* self._in_codeblock after the toggle of _process_codeblock
CodeblockAfter(in_codeblock, ln) == IF IsFenceLine(ln) THEN ~in_codeblock ELSE in_codeblock

\* line = self._process_codeblock(line)
ProcessCodeblock ==
  /\ pc = "codeblock"
  /\ _in_codeblock' = CodeblockAfter(_in_codeblock, line)
  /\ IF _in_codeblock'
     THEN _lines' = Append(_lines, line) /\ pc' = RaiseTo("LineFinished")
     ELSE _lines' = _lines /\ pc' = "doctest"
  /\ UNCHANGED <<config, indent, _current_section, _in_doctest_codeblock,
                 sig, title, content, src, i, line>>

\* the blank line ends the block and no closing marker is appended
process_doctest_codeblock_NoClose(in_doctest, ln) ==
  IF block_indicated(ln)
  THEN [append |-> IF in_doctest THEN <<processed_line(ln)>>
                   ELSE <<OpenMarker, processed_line(ln)>>,
        flag |-> TRUE, finished |-> TRUE]
  ELSE IF in_doctest /\ Strip(ln) = blank_token
  THEN [append |-> <<<<>>>>, flag |-> TRUE, finished |-> TRUE]
  ELSE IF in_doctest /\ Strip(ln) # <<>>
  THEN [append |-> <<processed_line(ln)>>, flag |-> TRUE, finished |-> TRUE]
  ELSE [append |-> <<>>, flag |-> FALSE, finished |-> FALSE]

\* the blank line that ends the block is finished with the closing marker
process_doctest_codeblock_BlankDropped(in_doctest, ln) ==
  IF block_indicated(ln)
  THEN [append |-> IF in_doctest THEN <<processed_line(ln)>>
                   ELSE <<OpenMarker, processed_line(ln)>>,
        flag |-> TRUE, finished |-> TRUE]
  ELSE IF in_doctest /\ Strip(ln) = blank_token
  THEN [append |-> <<<<>>>>, flag |-> TRUE, finished |-> TRUE]
  ELSE IF in_doctest /\ Strip(ln) # <<>>
  THEN [append |-> <<processed_line(ln)>>, flag |-> TRUE, finished |-> TRUE]
  ELSE IF in_doctest
  THEN [append |-> <<Fence>>, flag |-> FALSE, finished |-> TRUE]
  ELSE [append |-> <<>>, flag |-> FALSE, finished |-> FALSE]

\* what _process_doctest_codeblock does with a line: the lines it appends,
\* the flag it leaves, and whether it raises LineFinished
process_doctest_codeblock(in_doctest, ln) ==
  IF ~in_doctest
  THEN IF block_indicated(ln)
       THEN [append |-> <<OpenMarker, processed_line(ln)>>, flag |-> TRUE, finished |-> TRUE]
       ELSE [append |-> <<>>, flag |-> FALSE, finished |-> FALSE]
  ELSE IF block_indicated(ln)
       THEN [append |-> <<processed_line(ln)>>, flag |-> TRUE, finished |-> TRUE]
  ELSE IF Strip(ln) = blank_token
       THEN [append |-> <<<<>>>>, flag |-> TRUE, finished |-> TRUE]
  ELSE IF Strip(ln) # <<>>
       THEN [append |-> <<processed_line(ln)>>, flag |-> TRUE, finished |-> TRUE]
  ELSE [append |-> <<Fence>>, flag |-> FALSE, finished |-> FALSE]

\* line = self._process_doctest_codeblock(line)
ProcessDoctestCodeblock ==
  /\ pc = "doctest"
  /\ \E r \in {process_doctest_codeblock(_in_doctest_codeblock, line)} :
       /\ _lines' = _lines \o r.append
       /\ _in_doctest_codeblock' = r.flag
       /\ pc' = IF r.finished THEN RaiseTo("LineFinished") ELSE "line"
  /\ UNCHANGED <<config, indent, _current_section, _in_codeblock,
                 sig, title, content, src, i, line>>

\* line = self._process_line(line); self._lines.append(line)
ProcessLine ==
  /\ pc = "line"
  /\ \E r \in {process_line(indent, _current_section, line)} :
       /\ indent' = r.indent
       /\ _current_section' = r.section
       /\ line' = r.line
       /\ IF r.raised
          THEN _lines' = _lines /\ pc' = RaiseTo("ValueError")
          ELSE _lines' = Append(_lines, r.line) /\ pc' = "for"
  /\ UNCHANGED <<config, _in_codeblock, _in_doctest_codeblock,
                 sig, title, content, src, i>>

\* except LineFinished: continue
ExceptLineFinished ==
  /\ pc = "except"
  /\ pc' = "for"
  /\ UNCHANGED <<config, indent, _current_section, _in_codeblock,
                 _in_doctest_codeblock, _lines, sig, title, content, src, i, line>>

\* section.content = self._preprocess_refs('\n'.join(self._lines))
PreprocessRefs ==
  /\ pc = "refs"
  /\ content' = preprocess_refs(Join(_lines, <<NL>>))
  /\ pc' = "done"
  /\ UNCHANGED <<config, indent, _current_section, _in_codeblock,
                 _in_doctest_codeblock, _lines, sig, title, src, i, line>>

\* the line loop and the final pass, shared by every specification
Run ==
  \/ Enter
  \/ ForLine
  \/ ProcessCodeblock
  \/ ProcessDoctestCodeblock
  \/ ProcessLine
  \/ ExceptLineFinished
  \/ PreprocessRefs

Init == InitWith({FALSE})

ReadSectionText ==
  /\ pc = "entered"
  /\ \E text \in Texts(SectionPool, MaxLines) : ReadSection(text, <<>>)

Next == ReadSectionText \/ Run

Spec == Init /\ [][Next]_vars

\* the texts made of headers of every alias of the table
ReadHeaderText ==
  /\ pc = "entered"
  /\ \E text \in Texts(HeaderPool, MaxHeaderLines) : ReadSection(text, <<>>)

NextHeader == ReadHeaderText \/ Run

SpecHeader == Init /\ [][NextHeader]_vars

\* the texts made of transcript lines, and the example transcript
ReadDoctestText ==
  /\ pc = "entered"
  /\ \E text \in Texts(DoctestPool, MaxLines) \cup {T_transcript} :
       ReadSection(text, <<>>)

NextDoctest == ReadDoctestText \/ Run

SpecDoctest == Init /\ [][NextDoctest]_vars

\* a fence marker after two spaces
L_indented_fence == <<" ", " ">> \o Fence

FencePool == {L_fence, L_indented_fence, L_empty, L_colon, L_prompt}

\* the texts with fence markers at the left edge and indented
ReadFenceText ==
  /\ pc = "entered"
  /\ \E text \in Texts(FencePool, MaxLines) : ReadSection(text, <<>>)

NextFence == ReadFenceText \/ Run

SpecFence == Init /\ [][NextFence]_vars

L_attributes == <<"A", "t", "t", "r", "i", "b", "u", "t", "e", "s", ":">>
L_raises == <<"r", "a", "i", "s", "e", "s", ":">>
L_returns == <<"R", "e", "t", "u", "r", "n", "s", ":">>
L_yields == <<"Y", "i", "e", "l", "d", "s", ":">>
L_noname == <<" ", " ", ":", "y">>
L_nodesc == <<" ", " ", "x", ":", " ">>
L_deep == <<" ", " ", " ", "x", " ", ":", "y">>
L_word == <<" ", " ", "x">>

\* the headers of the sections other than Arguments, body lines with and
\* without a colon and with an empty side, a line at the left edge, a
\* whitespace-only line and a prompt line
RewritePool == {L_attributes, L_raises, L_returns, L_yields,
                L_arg, L_noname, L_nodesc, L_deep, L_word, L_colon, L_spaces,
                L_prompt}

\* the longest text of section lines, in lines
MaxRewriteLines == 3

\* the texts of section headers and body lines
ReadRewriteText ==
  /\ pc = "entered"
  /\ \E text \in Texts(RewritePool, MaxRewriteLines) : ReadSection(text, <<>>)

NextRewrite == ReadRewriteText \/ Run

SpecRewrite == Init /\ [][NextRewrite]_vars

\* the texts that hold references
ReadRefText ==
  /\ pc = "entered"
  /\ \E text \in RefTexts : ReadSection(text, <<>>)

NextRefs == ReadRefText \/ Run

SpecRefs == Init /\ [][NextRefs]_vars

\* sections with a signature, under either setting of markdown_header_id
InitTitle == InitWith(BOOLEAN)

ReadTitled ==
  /\ pc = "entered"
  /\ \E text \in {L_fence, L_colon} : \E s \in Sigs : ReadSection(text, s)

NextTitle == ReadTitled \/ Run

SpecTitle == InitTitle /\ [][NextTitle]_vars

\* the longest text of blank, unknown or unbalanced lines, in lines
MaxTotalLines == 3

\* the texts of lines that are blank, unknown or unbalanced
ReadTotalText ==
  /\ pc = "entered"
  /\ \E text \in Texts(TotalPool, MaxTotalLines) : ReadSection(text, <<>>)

NextTotal == ReadTotalText \/ Run

SpecTotal == Init /\ [][NextTotal]_vars

\* the statements of preprocess_section run one after the other: a call
\* that has started is not left waiting
FairTotal == SpecTotal /\ WF_vars(Run)

----------------------------------------------------------------------------
(* What one call computes from the state __init__ leaves, as a function of *)
(* the text: the loop body applied to each line in turn, then the final    *)
(* pass.                                                                   *)

FreshState == [indent |-> 0, section |-> None, codeblock |-> FALSE,
               doctest |-> FALSE, lines |-> <<>>]

\* one turn of the loop body (lines 79-85) on the fields st
LoopBody(st, ln) ==
  LET cb == CodeblockAfter(st.codeblock, ln)
      d == process_doctest_codeblock(st.doctest, ln)
      r == process_line(st.indent, st.section, ln)
  IN  IF cb THEN [st EXCEPT !.codeblock = cb, !.lines = Append(@, ln)]
      ELSE IF d.finished
      THEN [st EXCEPT !.codeblock = cb, !.doctest = d.flag, !.lines = @ \o d.append]
      ELSE [indent |-> r.indent, section |-> r.section, codeblock |-> cb,
            doctest |-> d.flag, lines |-> st.lines \o d.append \o <<r.line>>]

RECURSIVE LoopFrom(_, _)
LoopFrom(st, list) ==
  IF list = <<>> THEN st ELSE LoopFrom(LoopBody(st, Head(list)), Tail(list))

\* section.content after preprocess_section on a Preprocessor just constructed
FreshContent(list) == preprocess_refs(Join(LoopFrom(FreshState, list).lines, <<NL>>))

----------------------------------------------------------------------------
(* Claims.                                                                 *)

\* C1: every call of preprocess_section starts its line loop from the fresh
\* state (no section, indent 0, no fence, no transcript, no output lines),
\* and the content it produces for a text is the content a Preprocessor
\* just constructed produces for it, whatever calls came before.
C1_FreshPerCall ==
  /\ (pc = "for" /\ i = 0) =>
       /\ _current_section = None
       /\ indent = 0
       /\ ~_in_codeblock
       /\ ~_in_doctest_codeblock
       /\ _lines = <<>>
  /\ pc = "done" => content = FreshContent(src)

\* the k-th input line lies between an opening marker line and the marker
\* line that closes it
InsideFence(list, k) ==
  /\ ~StartsWith(list[k], Fence)
  /\ Cardinality({j \in 1..(k - 1) : StartsWith(list[j], Fence)}) % 2 = 1
  /\ \E j \in (k + 1)..Len(list) : StartsWith(list[j], Fence)

\* C2: every input line between an opening fence marker line and its
\* closing marker line is a line of the final content, character for
\* character.
C2_FencedLinesVerbatim ==
  pc = "done" =>
    \A k \in 1..Len(src) :
      InsideFence(src, k) =>
        \E j \in 1..Len(SplitAll(content, NL)) : SplitAll(content, NL)[j] = src[k]

\* C3: a line that toggles the fence flag, on or off, is finished by the
\* fence stage: it never reaches the transcript stage or the section stage.
C3_MarkerEndsAtFenceStage ==
  pc \in {"doctest", "line"} => ~StartsWith(line, Fence)

\* the line is k spaces, a name, a colon, one space and a description
IsNameDescription(ln, k) ==
  LET body == SliceFrom(ln, k)
      c == IndexOf(body, ":")
  IN  /\ SliceTo(ln, k) = Repeat(" ", k)
      /\ c >= 2
      /\ body[1] # " "
      /\ Len(body) >= c + 2
      /\ body[c + 1] = " "
      /\ body[c + 2] \notin Whitespace

NameOf(ln, k) == SubSeq(SliceFrom(ln, k), 1, IndexOf(SliceFrom(ln, k), ":") - 1)

DescriptionOf(ln, k) ==
  SubSeq(SliceFrom(ln, k), IndexOf(SliceFrom(ln, k), ":") + 2, Len(ln) - k)

\* C4: in the Arguments section with baseline k, the line of k spaces and
\* 'name: description' is emitted as '* __name__: description', with one
\* space after the colon.
C4_ArgumentBullet ==
  [][(/\ pc = "line"
      /\ _current_section = "Arguments"
      /\ indent >= 0
      /\ IsNameDescription(line, indent)
      /\ ~IsSectionHeader(line))
     => _lines' = Append(_lines, <<"*", " ", "_", "_">> \o NameOf(line, indent)
                           \o <<"_", "_", ":", " ">> \o DescriptionOf(line, indent))]_vars

\* no section is active and nothing is stripped
Plain == _current_section = None /\ indent = 0

\* C7: in an active section with a baseline, a non-blank line that is no
\* header and is indented less than the baseline ends the section (no
\* section, indent 0) and is emitted unchanged; from then on, until a
\* header of the table is met, every line the section stage handles is
\* emitted unchanged and leaves that state, and the other stages leave it
\* too.
C7_IndentDropEndsSection ==
  [][/\ (/\ pc = "line"
         /\ Strip(line) # <<>>
         /\ ~IsSectionHeader(line)
         /\ _current_section # None
         /\ indent >= 0
         /\ LeadingLen(line) < indent)
        => (Plain' /\ _lines' = Append(_lines, line))
     /\ (pc = "line" /\ Plain /\ ~IsSectionHeader(line))
        => (Plain' /\ _lines' = Append(_lines, line))
     /\ (pc # "line" /\ Plain) => Plain']_vars

\* a section was ended by a drop of the indentation, and the later lines,
\* one with a colon and one indented again, came out unchanged
C7_Witness ==
  /\ pc = "for"
  /\ i = 4
  /\ src = <<L_args, L_arg, L_colon, L_arg>>
  /\ _lines = <<HeaderMarker("Arguments"), FormatArgument(<<"x">>, <<" ", "y">>),
                L_colon, L_arg>>
  /\ Plain

\* C5: for every alias of the table, in any letter case and with any
\* whitespace around it, the header line that reaches the section stage
\* sets the section to the alias's canonical name and the indent to -1,
\* and puts into the output one element, '__<Canonical>__' and a newline,
\* in place of the header line.
C5_AliasHeader ==
  [][\A alias \in DOMAIN valid_sections :
       (pc = "line" /\ line \in HeaderLines(alias))
       => /\ _current_section' = valid_sections[alias]
          /\ indent' = -1
          /\ _lines' = Append(_lines, <<"_", "_">> \o SectionText[valid_sections[alias]]
                                        \o <<"_", "_", NL>>)]_vars

\* the header '  RETURNS : ' after a body line of another section
C5_Witness ==
  /\ pc = "for"
  /\ i = 2
  /\ src = <<<<"a", "r", "g", "s", ":">>,
             <<" ", " ", "R", "E", "T", "U", "R", "N", "S", " ", ":", " ">>>>
  /\ _current_section = "Returns"
  /\ indent = -1
  /\ _lines = <<<<"_", "_", "A", "r", "g", "u", "m", "e", "n", "t", "s", "_", "_", NL>>,
                <<"_", "_", "R", "e", "t", "u", "r", "n", "s", "_", "_", NL>>>>

\* the line starts, after its leading whitespace, with '>>> ' or '... '
IsPromptLine(ln) ==
  \/ StartsWith(LStrip(ln), <<">", ">", ">", " ">>)
  \/ StartsWith(LStrip(ln), <<".", ".", ".", " ">>)

\* the line with every tab of its leading whitespace written as 8 spaces
RECURSIVE TabsExpanded(_)
TabsExpanded(ln) ==
  IF ln = <<>> \/ Head(ln) \notin Whitespace THEN ln
  ELSE (IF Head(ln) = TAB THEN <<" ", " ", " ", " ", " ", " ", " ", " ">> ELSE <<Head(ln)>>)
       \o TabsExpanded(Tail(ln))

\* a line of the block as the transcript stage emits it: a line that is
\* '<BLANKLINE>' once trimmed as an empty line, any other line with the
\* tabs of its leading whitespace written as 8 spaces
EmittedInTranscript(ln) ==
  IF Strip(ln) = <<"<", "B", "L", "A", "N", "K", "L", "I", "N", "E", ">">>
  THEN <<>> ELSE TabsExpanded(ln)

\* what a transcript puts out: the opening marker and the first prompt
\* line; then each further non-blank line; at the first blank line the
\* closing marker, the line going on to the section stage, which emits it
\* unchanged
TranscriptOutput ==
  /\ (pc = "doctest" /\ ~_in_doctest_codeblock /\ IsPromptLine(line))
     => /\ _lines' = _lines \o <<Fence \o <<"p", "y", "t", "h", "o", "n">>,
                                 EmittedInTranscript(line)>>
        /\ _in_doctest_codeblock'
        /\ pc' = "except"
  /\ (pc = "doctest" /\ _in_doctest_codeblock /\ Strip(line) # <<>>)
     => /\ _lines' = Append(_lines, EmittedInTranscript(line))
        /\ _in_doctest_codeblock'
        /\ pc' = "except"
  /\ (pc = "doctest" /\ _in_doctest_codeblock /\ Strip(line) = <<>>)
     => /\ _lines' = Append(_lines, Fence)
        /\ ~_in_doctest_codeblock'
        /\ pc' = "line"
        /\ line' = line
  /\ (pc = "line" /\ Strip(line) = <<>>) => _lines' = Append(_lines, line)

\* C6: outside a fence a transcript block comes out in this order: the
\* opening marker right before the first prompt line, every prompt line
\* and non-blank output line in input order, the closing marker at the
\* first blank line, then that blank line unchanged; '>>> x = 1', '>>> x',
\* '1', '' gives the opening marker, the three lines, the closing marker
\* and ''.
C6_TranscriptOrder ==
  [][/\ TranscriptOutput
     /\ (pc = "refs" /\ src = <<L_assign, L_prompt, L_out, L_empty>>)
        => _lines = <<Fence \o <<"p", "y", "t", "h", "o", "n">>,
                      L_assign, L_prompt, L_out, Fence, L_empty>>]_vars

\* a block with a tab-indented prompt line and a <BLANKLINE> line, closed
\* by a blank line
C6_Witness ==
  /\ pc = "for"
  /\ i = 4
  /\ src = <<L_prompt, L_more, L_blankline, L_empty>>
  /\ _lines = <<OpenMarker, L_prompt,
                <<" ", " ", " ", " ", " ", " ", " ", " ", ".", ".", ".", " ", "y">>,
                <<>>, Fence, <<>>>>
  /\ ~_in_doctest_codeblock

\* a character of a symbol: a word character or a dot
IsSymbolChar(c) == c \in WordChars \cup {"."}

\* a reference starts at index p of text: a '#' at the start of the text or
\* after a space or a tab, with a symbol character after it
ReferenceAt(text, p) ==
  /\ text[p] = "#"
  /\ p = 1 \/ text[p - 1] \in {" ", TAB}
  /\ p < Len(text)
  /\ IsSymbolChar(text[p + 1])

\* the index of the last symbol character of the reference that starts at p
SymbolEnd(text, p) ==
  CHOOSE e \in (p + 1)..Len(text) :
    /\ \A k \in (p + 1)..e : IsSymbolChar(text[k])
    /\ e = Len(text) \/ ~IsSymbolChar(text[e + 1])

\* the index after which the code span of the reference at p is closed:
\* after its '()' when it has one, else before its last character when that
\* is a dot, else after its last character
SpanEnd(text, p) ==
  LET e == SymbolEnd(text, p)
  IN  IF e + 2 <= Len(text) /\ text[e + 1] = "(" /\ text[e + 2] = ")" THEN e + 2
      ELSE IF text[e] = "." THEN e - 1
      ELSE e

\* the text with each reference's '#' made a backquote and a backquote put
\* in where its code span ends, every other character kept
RECURSIVE WithCodeSpans(_, _)
WithCodeSpans(text, k) ==
  IF k > Len(text) THEN <<>>
  ELSE (IF ReferenceAt(text, k) THEN <<BQ>> ELSE <<text[k]>>)
       \o (IF \E p \in 1..k : ReferenceAt(text, p) /\ SpanEnd(text, p) = k
           THEN <<BQ>> ELSE <<>>)
       \o WithCodeSpans(text, k + 1)

\* C8: the final pass replaces each matched '#symbol' by the symbol in
\* backquotes, after the prefix character it keeps: '()' inside the code
\* span, one trailing dot of a symbol without '()' outside it, all other
\* text unchanged; '#foo.bar() does X.' gives '`foo.bar()` does X.' and
\* '#foo.' gives '`foo`.'.
C8_ReferenceCodeSpans ==
  pc = "done" =>
    /\ content = WithCodeSpans(Join(_lines, <<NL>>), 1)
    /\ _lines = <<T_call>> =>
         content = <<BQ, "f", "o", "o", ".", "b", "a", "r", "(", ")", BQ, " ",
                     "d", "o", "e", "s", " ", "X", ".">>
    /\ _lines = <<T_dot>> => content = <<BQ, "f", "o", "o", BQ, ".">>

\* '#foo.' has been rewritten
C8_Witness ==
  pc = "done" /\ src = <<T_dot>> /\ _lines = <<T_dot>>
    /\ content = <<BQ, "f", "o", "o", BQ, ".">>

\* C9: with a signature and markdown_header_id, the title is the escaped
\* signature and '  {#<name>}', <name> being the supplied signature up to
\* its first '('; without the option it is the escaped signature; without
\* a signature the title is not set.
C9_TitleAnchor ==
  pc \notin {"ready", "entered"} =>
    /\ (sig # <<>> /\ config) =>
         title = EscapeSig(sig) \o <<" ", " ", "{", "#">> \o Split1(sig, "(")[1] \o <<"}">>
    /\ (sig # <<>> /\ ~config) => title = EscapeSig(sig)
    /\ sig = <<>> => title = <<>>

\* the loop body is handling the i-th line of the text
InLoopBody == pc \in {"codeblock", "doctest", "line", "except"}

\* C10: preprocess_section ends for every text and raises nothing to its
\* caller (LineFinished is caught in the loop body of the line that raised
\* it, and nothing else is raised); every line of the text is handled once,
\* in order: the loop body always works on line i, i goes up by one per
\* turn, and the final pass runs when i has reached the last line.
C10_TerminatesWithoutRaising ==
  /\ [](/\ pc # "raised"
        /\ InLoopBody => (i \in 1..Len(src) /\ line = src[i])
        /\ pc \in {"refs", "done"} => i = Len(src))
  /\ [][/\ i' = i \/ (pc = "for" /\ i' = i + 1) \/ pc' = "entered"
        /\ pc = "except" => pc' = "for"]_vars
  /\ (pc = "for" /\ i = 0) ~> (pc = "done")

\* a text with an unknown header, a transcript left open and a single
\* fence marker has been processed to the end
C10_Witness ==
  /\ pc = "done"
  /\ src = <<L_unknown, L_prompt, L_fence>>
  /\ _lines = <<L_unknown, OpenMarker, L_prompt, L_fence>>
  /\ _in_codeblock
  /\ _in_doctest_codeblock

\* the signature with one backslash put before each backslash, '*' and '_',
\* every other character kept
RECURSIVE EscapedCharByChar(_)
EscapedCharByChar(s) ==
  IF s = <<>> THEN <<>>
  ELSE (IF Head(s) \in {BSL, "*", "_"} THEN <<BSL, Head(s)>> ELSE <<Head(s)>>)
       \o EscapedCharByChar(Tail(s))

\* C11: the title made from a signature is the signature with exactly one
\* backslash added before every backslash, '*' and '_' and every other
\* character unchanged and in order; the added backslashes are not escaped
\* again. With the anchor option the title goes on after that text.
C11_EscapedOnce ==
  (pc \notin {"ready", "entered"} /\ sig # <<>>) =>
    /\ SliceTo(title, Len(EscapedCharByChar(sig))) = EscapedCharByChar(sig)
    /\ ~config => title = EscapedCharByChar(sig)

\* the signature '\*_f' has been given the title '\\\*\_f'
C11_Witness ==
  /\ pc = "done"
  /\ ~config
  /\ sig = <<BSL, "*", "_", "f">>
  /\ title = <<BSL, BSL, BSL, "*", BSL, "_", "f">>

\* the line's content, leading whitespace ignored, starts with the marker
IsMarkerLine(ln) == StartsWith(LStrip(ln), Fence)

\* C12: after any prefix of the input, the fence flag is true exactly when
\* an odd number of lines whose content, leading whitespace ignored, starts
\* with a triple backquote has been seen: every such line toggles the flag,
\* an indented one too, and no other line does.
C12_FenceParity ==
  pc = "for" =>
    (_in_codeblock <=> Cardinality({k \in 1..i : IsMarkerLine(src[k])}) % 2 = 1)

\* the '#' characters the pass rewrites: followed by a symbol character, and
\* either the first character of the whole text or right after a space or a
\* tab
RewrittenHashes(text) ==
  {p \in 1..Len(text) :
     /\ text[p] = "#"
     /\ p < Len(text) /\ IsSymbolChar(text[p + 1])
     /\ p = 1 \/ text[p - 1] \in {" ", TAB}}

\* the indexes of the backquotes of the text
Backquotes(text) == {k \in 1..Len(text) : text[k] = BQ}

\* the text from index k on, less the characters at the indexes of idx
RECURSIVE DropAt(_, _, _)
DropAt(text, idx, k) ==
  IF k > Len(text) THEN <<>>
  ELSE (IF k \in idx THEN <<>> ELSE <<text[k]>>) \o DropAt(text, idx, k + 1)

\* C13: the pass runs once, over the joined output, when the line loop has
\* ended; it takes away exactly the '#' characters that have a symbol
\* character after them and are the first character of the whole text or
\* follow a space or a tab, putting two backquotes in for each; a '#' at
\* the start of a later line or after any other character stays.
C13_RewrittenHashes ==
  /\ pc \in {"for", "codeblock", "doctest", "line", "except", "refs"}
       => content = Join(src, <<NL>>)
  /\ pc = "done" =>
       LET text == Join(_lines, <<NL>>)
       IN  /\ DropAt(content, Backquotes(content), 1)
                = DropAt(text, RewrittenHashes(text) \cup Backquotes(text), 1)
           /\ Cardinality(Backquotes(content))
                = Cardinality(Backquotes(text)) + 2 * Cardinality(RewrittenHashes(text))

\* '#a' at the start of the text is rewritten, '#a' at the start of the
\* second line is not
C13_Witness ==
  /\ pc = "done"
  /\ src = <<<<"#", "a">>, <<"#", "a">>>>
  /\ content = <<BQ, "a", BQ, NL, "#", "a">>

\* the part of the trimmed line before its first colon
BeforeColon(ln) == SubSeq(Strip(ln), 1, IndexOf(Strip(ln), ":") - 1)

\* the part of the trimmed line after its first colon
AfterColon(ln) == SubSeq(Strip(ln), IndexOf(Strip(ln), ":") + 1, Len(Strip(ln)))

\* the line contains a colon, and the text before and after its first
\* colon are both non-empty once trimmed
BothSides(ln) ==
  /\ \E k \in 1..Len(ln) : ln[k] = ":"
  /\ Strip(BeforeColon(ln)) # <<>>
  /\ Strip(AfterColon(ln)) # <<>>

C15_BlankLinePassthrough ==
  [][/\ (pc = "line" /\ \A k \in 1..Len(line) : line[k] \in Whitespace)
        => /\ _lines' = Append(_lines, line)
           /\ _current_section' = _current_section
           /\ indent' = indent
     /\ (/\ pc = "line"
         /\ indent = -1
         /\ \E k \in 1..Len(line) : line[k] \notin Whitespace
         /\ ~IsSectionHeader(line))
        => indent' = LeadingLen(line)]_vars

\* after the Returns header a line of two spaces left the indent unset,
\* and the line indented by three spaces has set the baseline to 3
C15_Witness ==
  /\ pc = "for"
  /\ src = <<L_returns, L_spaces, L_deep>>
  /\ i = 3
  /\ _current_section = "Returns"
  /\ indent = 3
  /\ _lines[2] = L_spaces

\* how many elements of the list are e
Count(list, e) == Cardinality({k \in 1..Len(list) : list[k] = e})

\* the list starts with the elements of the other list
HasPrefix(list, prefix) ==
  Len(prefix) <= Len(list) /\ SubSeq(list, 1, Len(prefix)) = prefix

\* C16: the transcript stage emits the marker '```python' exactly when it
\* opens a transcript and the marker '```' exactly when it closes one, and
\* a call starts with no transcript open; so after every processed line
\* the markers opened less the markers closed are 1 inside a transcript and
\* 0 outside (counted in the output of a text without fence lines, where
\* every such element is a marker of the transcript stage), and a text that
\* ends inside a transcript leaves one marker unclosed.
C16_TranscriptMarkers ==
  /\ [][/\ (pc = "doctest" /\ ~_in_doctest_codeblock /\ _in_doctest_codeblock')
            => /\ Len(_lines') = Len(_lines) + 2
               /\ HasPrefix(_lines', _lines)
               /\ _lines'[Len(_lines) + 1] = <<BQ, BQ, BQ, "p", "y", "t", "h", "o", "n">>
        /\ (pc = "doctest" /\ _in_doctest_codeblock /\ ~_in_doctest_codeblock')
            => _lines' = Append(_lines, <<BQ, BQ, BQ>>)
        /\ (pc = "doctest" /\ _in_doctest_codeblock /\ _in_doctest_codeblock')
            => Len(_lines') = Len(_lines) + 1 /\ HasPrefix(_lines', _lines)
        /\ (pc = "doctest" /\ ~_in_doctest_codeblock /\ ~_in_doctest_codeblock')
            => _lines' = _lines
        /\ (pc # "doctest" /\ _in_doctest_codeblock' # _in_doctest_codeblock)
            => (pc' = "entered" /\ ~_in_doctest_codeblock' /\ _lines' = <<>>)]_vars
  /\ []((/\ pc \in {"for", "refs", "done"}
         /\ \A k \in 1..Len(src) : ~StartsWith(src[k], <<BQ, BQ, BQ>>))
        => Count(_lines, <<BQ, BQ, BQ, "p", "y", "t", "h", "o", "n">>)
             - Count(_lines, <<BQ, BQ, BQ>>)
           = IF _in_doctest_codeblock THEN 1 ELSE 0)

\* a transcript closed by a blank line, then a transcript the text ends in
C16_Witness ==
  /\ pc = "done"
  /\ src = <<L_prompt, L_empty, L_prompt, L_out>>
  /\ _in_doctest_codeblock
  /\ _lines = <<OpenMarker, L_prompt, Fence, L_empty, OpenMarker, L_prompt, L_out>>

\* C17: after every processed line of every call, no active section
\* implies an indent of 0 (so that the section stage strips nothing while
\* no section is active).
C17_NoSectionNoIndent ==
  (pc = "for" /\ i >= 1 /\ _current_section = None) => indent = 0

\* the step appends exactly one element
AppendsOne == Len(_lines') = Len(_lines) + 1 /\ HasPrefix(_lines', _lines)

\* C18: every input line puts exactly one element into the output, in the
\* fence stage, the transcript stage or the section stage and in no two of
\* them; the only other elements are a '```python' at each transcript
\* opening and a '```' at each closing; elements are appended at the end
\* and never changed during the loop; so the output has as many elements
\* as lines handled plus openings and closings (counted in the output of
\* texts without fence lines, where every such element is a marker).
C18_OneElementPerLine ==
  /\ [][/\ pc = "codeblock"
            => \/ _lines' = Append(_lines, line) /\ pc' = "except"
               \/ _lines' = _lines /\ pc' = "doctest"
        /\ pc = "doctest"
            => \/ /\ pc' = "except"
                  /\ ~_in_doctest_codeblock
                  /\ Len(_lines') = Len(_lines) + 2
                  /\ HasPrefix(_lines', Append(_lines, <<BQ, BQ, BQ, "p", "y", "t", "h", "o", "n">>))
               \/ pc' = "except" /\ _in_doctest_codeblock /\ AppendsOne
               \/ /\ pc' = "line"
                  /\ _in_doctest_codeblock
                  /\ _lines' = Append(_lines, <<BQ, BQ, BQ>>)
               \/ pc' = "line" /\ ~_in_doctest_codeblock /\ _lines' = _lines
        /\ pc = "line" => (AppendsOne /\ pc' = "for")
        /\ pc \in {"for", "except", "refs"} => _lines' = _lines
        /\ pc' = "entered" \/ HasPrefix(_lines', _lines)]_vars
  /\ []((/\ pc \in {"for", "refs", "done"}
         /\ \A k \in 1..Len(src) : ~StartsWith(src[k], <<BQ, BQ, BQ>>))
        => Len(_lines) = i + Count(_lines, <<BQ, BQ, BQ, "p", "y", "t", "h", "o", "n">>)
                           + Count(_lines, <<BQ, BQ, BQ>>))

\* a transcript opened and closed, a fence marker and a body line: four
\* lines and two markers
C18_Witness ==
  /\ pc = "done"
  /\ src = <<L_prompt, L_empty, L_fence, L_arg>>
  /\ _lines = <<OpenMarker, L_prompt, Fence, L_empty, L_fence, L_arg>>

\* C19: what the section stage strips from the front of a line is
\* whitespace only: the indent it strips by is at most the length of the
\* line's leading whitespace, each of the characters stripped is a
\* whitespace character, and the line keeps all it has from its first
\* non-whitespace character on.
C19_StripsWhitespaceOnly ==
  [][(/\ pc = "line"
      /\ \E k \in 1..Len(line) : line[k] \notin Whitespace
      /\ ~IsSectionHeader(line))
     => /\ indent' \in 0..LeadingLen(line)
        /\ \A k \in 1..indent' : line[k] \in Whitespace
        /\ LStrip(SubSeq(line, indent' + 1, Len(line))) = LStrip(line)
        /\ _current_section' = None
             => _lines' = Append(_lines, SubSeq(line, indent' + 1, Len(line)))]_vars

\* with the baseline 2 of a Returns section, the two spaces of '  x' have
\* been stripped
C19_Witness ==
  /\ pc = "for"
  /\ src = <<L_returns, L_arg, L_word>>
  /\ i = 3
  /\ indent = 2
  /\ _lines[3] = <<"x">>

====
